---- MODULE Spec2Model ----
(***************************************************************************)
(* Model of processor/lookupprocessor/lookupsource/cache.go: the Cache     *)
(* (entries map + order slice guarded by a sync.RWMutex) and the           *)
(* WrapWithCache decorator.  Every caller is a goroutine that issues one   *)
(* call at a time; each call is split at the points where the code         *)
(* acquires or releases the lock and where it leaves the cache to run the  *)
(* wrapped lookup function.  The clock is not stepped on its own: the      *)
(* steps that can consult time.Now() happen at any time not earlier than   *)
(* the latest such step, and now is that time.                             *)
(***************************************************************************)
EXTENDS Integers, Sequences, FiniteSets, TLC

\* ---------------------------------------------------------------- bounds
MaxTime   == 3        \* times are 1..MaxTime
MaxOps    == 3        \* calls issued in one behaviour of two goroutines
MaxSeqOps == 5        \* calls issued in one behaviour of a lone goroutine

\* ------------------------------------------------------------ input sets
Procs     == {"p1", "p2"}
Keys      == {"k1", "k2", "k3", "k4"}
Vals      == {"v1", "v2"}
Nil       == "nil"
NoErr     == "noerr"
Errs      == {"e1"}
None      == "none"

VARIABLES
    now,        \* the time of the latest step that can consult time.Now()
    cacheNil,   \* the *Cache handed to WrapWithCache is nil
    config,     \* Cache.config
    entries,    \* Cache.entries : key -> cacheEntry
    order,      \* Cache.order
    writer,     \* holder of Cache.mu in write mode, or None
    readers,    \* holders of Cache.mu in read mode
    callers,    \* the goroutines that issue calls
    keyset,     \* the keys they call with
    pc,         \* position of each goroutine in its call
    op,         \* the call a goroutine is executing and its arguments
    rd,         \* get's locals entry, exists
    gres,       \* what get returned
    fres,       \* what the wrapped LookupFunc returned
    res,        \* what the call returned
    fnCalls,    \* invocations of the wrapped LookupFunc by the current call
    ne,         \* the cacheEntry the current set is about to store
    nev,        \* entries evicted by the current set
    nops,       \* calls issued so far
    hist,       \* history: the calls a lone goroutine has completed on a cache
                \*   without expiry, while they follow an eviction scenario
    prevErr,    \* history: the key of a lone goroutine's previous call when
                \*   that was a decorated call that returned an error
    prevCall,   \* history: what a lone goroutine's previous call returned and
                \*   how often it invoked the wrapped function, when that was a
                \*   decorated call without error and this call has its key
    log,        \* history: the calls issued so far and their callers, while
                \*   all of them are direct get and set calls on a cache that
                \*   keeps a log
    oracle      \* history: what the wrapped LookupFunc has returned for each
                \*   key, while it has answered every key the same way each
                \*   time and no direct set was made, on a cache that keeps it

vars == <<now, cacheNil, config, entries, order, writer, readers, callers, keyset,
          pc, op, rd, gres, fres, res, fnCalls, ne, nev, nops, hist, prevErr,
          prevCall, log, oracle>>

cacheVars == <<entries, order>>
lockVars  == <<writer, readers>>
envVars   == <<now, cacheNil, config, callers, keyset>>

\* ------------------------------------------------------------- records
NoOp    == [kind |-> None, key |-> None, value |-> Nil, found |-> FALSE]
\* a cacheEntry; storedAt is history: the clock reading of the set that stored
\* an entry with a finite lifetime
NoEntry == [value |-> Nil, found |-> FALSE, expiresAt |-> 0, storedAt |-> 0]
NoRead  == [exists |-> FALSE, entry |-> NoEntry]
NoGet   == [value |-> Nil, found |-> FALSE, hit |-> FALSE]
NoFn    == [value |-> Nil, found |-> FALSE, err |-> NoErr]
NoRes   == [value |-> Nil, found |-> FALSE, hit |-> FALSE, err |-> NoErr, size |-> 0]
NoPrev  == [key |-> None, value |-> Nil, found |-> FALSE, calls |-> 0]
NoOracle == [on |-> FALSE, m |-> [k \in {} |-> NoFn]]
NewOracle == [on |-> TRUE, m |-> [k \in {} |-> NoFn]]
NoLog   == <<[by |-> None, kind |-> "off", key |-> None, value |-> Nil, found |-> FALSE]>>

\* inputs of direct set calls and outcomes of the wrapped LookupFunc
SetInputs == {<<"v1", TRUE>>, <<"v2", TRUE>>, <<Nil, FALSE>>}
FnResults == {[value |-> "v1", found |-> TRUE,  err |-> NoErr],
              [value |-> "v2", found |-> TRUE,  err |-> NoErr],
              [value |-> Nil,  found |-> FALSE, err |-> NoErr],
              [value |-> Nil,  found |-> FALSE, err |-> "e1"],
              [value |-> "v1", found |-> TRUE,  err |-> "e1"]}

\* ------------------------------------------------------ pure operations
\* a wrong variant: the zero expiresAt is compared like any other
isExpiredNoZero(e, t) == t > e.expiresAt

\* a wrong variant: an entry counts as expired at its expiresAt already
isExpiredEarly(e, t) ==
    IF e.expiresAt = 0 THEN FALSE ELSE t >= e.expiresAt

\* cacheEntry.isExpired at time t: time.Now().After(e.expiresAt), never for
\* the zero expiresAt
isExpired(e, t) ==
    IF e.expiresAt = 0 THEN FALSE ELSE t > e.expiresAt

\* index of the first occurrence of key in s, 0 when there is none
RECURSIVE IndexFrom(_, _, _)
IndexFrom(s, key, i) ==
    IF i > Len(s) THEN 0
    ELSE IF s[i] = key THEN i
    ELSE IndexFrom(s, key, i + 1)

\* a wrong variant: the slice ends before position i
CutTail(s, i) == SubSeq(s, 1, i - 1)

\* append(s[:i], s[i+1:]...) for the 1-based position i
Cut(s, i) == SubSeq(s, 1, i - 1) \o SubSeq(s, i + 1, Len(s))

\* a wrong variant: the key stays in the slice
removeFromOrderKeeps(s, key) == s

\* the order slice after removeEntryLocked(key)
removeFromOrder(s, key) ==
    LET i == IndexFrom(s, key, 1) IN IF i = 0 THEN s ELSE Cut(s, i)

\* a wrong variant: the key keeps its place
moveToEndKeepsPlace(s, key) == s

\* the order slice after moveToEndLocked(key)
moveToEndLocked(s, key) ==
    LET i == IndexFrom(s, key, 1) IN IF i = 0 THEN s ELSE Append(Cut(s, i), key)

\* a wrong variant: the key stays in the map
MapDeleteKeeps(m, key) == m

\* delete(m, key)
MapDelete(m, key) == [k \in DOMAIN m \ {key} |-> m[k]]

\* m[key] = e
MapPut(m, key, e) == [k \in DOMAIN m \cup {key} |-> IF k = key THEN e ELSE m[k]]

EmptyMap == [k \in {} |-> NoEntry]

\* a wrong variant: only the entries that have not expired are counted
SizeLive == Cardinality({k \in DOMAIN entries : ~isExpired(entries[k], now)})

\* len(c.entries)
Size == Cardinality(DOMAIN entries)

\* -------------------------------------------------------------- history
Lone == Cardinality(callers) = 1

\* the event a completed call leaves in the history
Off == << <<"off", "off", "off">> >>
Event(o, r) ==
    CASE o.kind = "set" /\ o.found -> <<"set", o.key, o.value>>
      [] o.kind = "get" /\ r.hit   -> <<"get", o.key, "hit">>
      [] OTHER                     -> <<"off", "off", "off">>

DistinctKeys(h) == \A i, j \in 1..Len(h) : i # j => h[i][2] # h[j][2]
AllSets(h) == \A i \in 1..Len(h) : h[i][1] = "set"

\* the scenarios followed on a cache of capacity N: sets of up to N + 1
\* distinct keys; or, for N = 3, sets of three distinct keys, a set or get
\* hit of the first of them, and a set of a fourth key
Followed(h) ==
    \/ Len(h) <= config.Size + 1 /\ AllSets(h) /\ DistinctKeys(h)
    \/ /\ config.Size = 3
       /\ Len(h) \in {4, 5}
       /\ AllSets(SubSeq(h, 1, 3)) /\ DistinctKeys(SubSeq(h, 1, 3))
       /\ h[4][1] \in {"set", "get"} /\ h[4][2] = h[1][2]
       /\ Len(h) = 5 => h[5][1] = "set" /\ DistinctKeys(<<h[1], h[2], h[3], h[5]>>)

Record(h, e) ==
    IF h = Off \/ ~Followed(Append(h, e)) THEN Off ELSE Append(h, e)

\* the oracle after the wrapped function returned r for key
Learn(o, key, r) ==
    IF ~o.on THEN o
    ELSE IF key \notin DOMAIN o.m THEN [o EXCEPT !.m = MapPut(o.m, key, r)]
    ELSE IF o.m[key] = r THEN o
    ELSE NoOracle

\* --------------------------------------------------------- construction
\* NewCache(cfg): the config is kept as given, map and slice start empty
NewCache(cfg) == [config |-> cfg, entries |-> EmptyMap, order |-> <<>>]

\* the zero CacheConfig, standing for the configuration of a nil *Cache
ZeroConfig == [Enabled |-> FALSE, Size |-> 0, TTL |-> 0, NegativeTTL |-> 0]

InitWith(cs, ks, cfgs, nils) ==
    /\ now = 1
    /\ callers = cs
    /\ keyset = ks
    /\ cacheNil \in nils
    /\ \E cfg \in (IF cacheNil THEN {ZeroConfig} ELSE cfgs) :
          /\ config  = NewCache(cfg).config
          /\ entries = NewCache(cfg).entries
          /\ order   = NewCache(cfg).order
    /\ writer = None
    /\ readers = {}
    /\ pc = [p \in Procs |-> "idle"]
    /\ op = [p \in Procs |-> NoOp]
    /\ rd = [p \in Procs |-> NoRead]
    /\ gres = [p \in Procs |-> NoGet]
    /\ fres = [p \in Procs |-> NoFn]
    /\ res = [p \in Procs |-> NoRes]
    /\ fnCalls = [p \in Procs |-> 0]
    /\ ne = [p \in Procs |-> NoEntry]
    /\ nev = [p \in Procs |-> 0]
    /\ nops = 0
    /\ hist = IF Lone /\ ~cacheNil /\ config.TTL = 0 /\ config.NegativeTTL = 0 THEN <<>> ELSE Off
    /\ prevErr = None
    /\ prevCall = NoPrev

Cfg(e, n, ttl, neg) == [Enabled |-> e, Size |-> n, TTL |-> ttl, NegativeTTL |-> neg]

\* two goroutines on two keys: a cache of one entry where both results expire,
\* a cache of two entries without negative caching
ConcConfigs == {Cfg(TRUE, 1, 1, 1), Cfg(TRUE, 2, 1, 0)}
Init == InitWith(Procs, {"k1", "k2"}, ConcConfigs, {FALSE})
        /\ log = NoLog /\ oracle = NoOracle

\* one goroutine on four keys: caches of one to three entries that never
\* expire, caches of one entry where only positive results expire or both do
\* after different times, a cache of two entries where positive results
\* expire, a cache built with size 0, a disabled cache and a nil cache
SeqConfigs ==
    {Cfg(TRUE, n, 0, 0) : n \in {0, 1, 2, 3}}
    \cup {Cfg(TRUE, 1, 1, 0), Cfg(TRUE, 1, 2, 1), Cfg(TRUE, 2, 1, 0)}
    \cup {Cfg(FALSE, 1, 0, 0)}
InitSeq == InitWith({"p1"}, Keys, SeqConfigs, BOOLEAN)
           /\ log = NoLog /\ oracle = NoOracle

\* two goroutines on two keys and a cache of one entry where only negative
\* results expire, with the log of the calls and the oracle kept
SerConfigs == {Cfg(TRUE, 1, 0, 1)}
InitSer == InitWith(Procs, {"k1", "k2"}, SerConfigs, {FALSE})
           /\ log = <<>> /\ oracle = NewOracle

\* two goroutines on two keys and a cache of one entry where positive results
\* expire and negative ones are not stored: set evicts and returns early,
\* get takes its expired-entry path
FairConfigs == {Cfg(TRUE, 1, 1, 0)}
InitFair == InitWith(Procs, {"k1", "k2"}, FairConfigs, {FALSE})
            /\ log = NoLog /\ oracle = NoOracle

\* ------------------------------------------------------------ the clock
\* the times at which the next step can happen
Readings == now .. MaxTime

\* ------------------------------------------------------------ the mutex
\* a wrong variant: a reader does not wait for the writer
CanRLockAlways == TRUE

CanRLock == writer = None
CanLock  == writer = None /\ readers = {}

\* ------------------------------------------------------ issuing a call
\* the oracle after a step of goroutine p: the return of the wrapped function
\* is the only step that teaches it
Noted(p) ==
    IF pc[p] = "fn_run" THEN Learn(oracle, op[p].key, fres'[p]) ELSE oracle

\* the call returns r
Done(p, r) ==
    /\ pc' = [pc EXCEPT ![p] = "done"]
    /\ res' = [res EXCEPT ![p] = r]
    /\ hist' = Record(hist, Event(op[p], r))
    /\ oracle' = Noted(p)
    /\ UNCHANGED <<prevErr, prevCall, log>>

\* the call goes on at label l
Goto(p, l) ==
    /\ pc' = [pc EXCEPT ![p] = l]
    /\ oracle' = Noted(p)
    /\ UNCHANGED <<res, hist, prevErr, prevCall, log>>

\* a wrong variant: only the nil cache is bypassed
BypassNilOnly == cacheNil

\* WrapWithCache returns fn itself for a nil or disabled cache
Bypass == cacheNil \/ ~config.Enabled

\* the calls one behaviour issues
OpLimit == IF Lone THEN MaxSeqOps ELSE MaxOps

\* goroutine p, whose previous call (if any) has returned, makes call o
Issue(p, o) ==
    /\ p \in callers
    /\ o.key \in keyset \cup {None}
    /\ pc[p] \in {"idle", "done"}
    /\ nops < OpLimit
    /\ nops' = nops + 1
    /\ prevErr' = IF Lone /\ op[p].kind = "lookup" /\ res[p].err # NoErr
                  THEN op[p].key ELSE None
    /\ prevCall' = IF /\ Lone /\ ~Bypass
                      /\ op[p].kind = "lookup" /\ res[p].err = NoErr
                      /\ o.kind = "lookup" /\ o.key = op[p].key
                   THEN [key |-> op[p].key, value |-> res[p].value,
                         found |-> res[p].found, calls |-> fnCalls[p]]
                   ELSE NoPrev
    /\ oracle' = IF o.kind = "set" THEN NoOracle ELSE oracle
    /\ log' = IF log = NoLog \/ o.kind \notin {"get", "set"}
              THEN NoLog
              ELSE Append(log, [by |-> p, kind |-> o.kind, key |-> o.key,
                                value |-> o.value, found |-> o.found])
    /\ op' = [op EXCEPT ![p] = o]
    /\ pc' = [pc EXCEPT ![p] =
                CASE o.kind = "get"    -> "get_rlock"
                  [] o.kind = "set"    -> "set_lock"
                  [] o.kind = "clear"  -> "clear_lock"
                  [] o.kind = "size"   -> "size_rlock"
                  [] o.kind = "lookup" -> IF Bypass THEN "fn_run" ELSE "get_rlock"]
    /\ fnCalls' = [fnCalls EXCEPT ![p] = IF o.kind = "lookup" /\ Bypass THEN 1 ELSE 0]
    /\ res' = [res EXCEPT ![p] = NoRes]
    /\ gres' = [gres EXCEPT ![p] = NoGet]
    /\ fres' = [fres EXCEPT ![p] = NoFn]
    /\ nev' = [nev EXCEPT ![p] = 0]
    /\ UNCHANGED <<envVars, cacheVars, lockVars, rd, ne, hist>>

CallGet(p, k) ==
    /\ ~cacheNil
    /\ Issue(p, [kind |-> "get", key |-> k, value |-> Nil, found |-> FALSE])

CallSet(p, k, v, f) ==
    /\ ~cacheNil
    /\ Issue(p, [kind |-> "set", key |-> k, value |-> v, found |-> f])

CallClear(p) ==
    /\ ~cacheNil
    /\ Issue(p, [kind |-> "clear", key |-> None, value |-> Nil, found |-> FALSE])

CallSize(p) ==
    /\ ~cacheNil
    /\ Issue(p, [kind |-> "size", key |-> None, value |-> Nil, found |-> FALSE])

\* a call of the function WrapWithCache returned: fn itself, entered at once,
\* or the closure, which starts with cache.get(key)
CallLookup(p, k) ==
    Issue(p, [kind |-> "lookup", key |-> k, value |-> Nil, found |-> FALSE])

\* ------------------------------------------------------------ Cache.get
\* c.mu.RLock()
GetRLock(p) ==
    /\ pc[p] = "get_rlock"
    /\ CanRLock
    /\ readers' = readers \cup {p}
    /\ Goto(p, "get_read")
    /\ UNCHANGED <<envVars, cacheVars, writer, op, rd, gres, fres, fnCalls, ne, nev, nops>>

\* a wrong variant: the read lock is not released
GetReadKeepsLock(p) ==
    /\ pc[p] = "get_read"
    /\ rd' = [rd EXCEPT ![p] =
                IF op[p].key \in DOMAIN entries
                THEN [exists |-> TRUE, entry |-> entries[op[p].key]]
                ELSE NoRead]
    /\ Goto(p, "get_check")
    /\ UNCHANGED <<envVars, cacheVars, lockVars, op, gres, fres, fnCalls, ne, nev, nops>>

\* entry, exists := c.entries[key]; c.mu.RUnlock()
GetRead(p) ==
    /\ pc[p] = "get_read"
    /\ rd' = [rd EXCEPT ![p] =
                IF op[p].key \in DOMAIN entries
                THEN [exists |-> TRUE, entry |-> entries[op[p].key]]
                ELSE NoRead]
    /\ readers' = readers \ {p}
    /\ Goto(p, "get_check")
    /\ UNCHANGED <<envVars, cacheVars, writer, op, gres, fres, fnCalls, ne, nev, nops>>

\* a wrong variant: an entry that exists is reported as found
getResultExistsAsFound(r) ==
    IF ~r.exists THEN NoGet
    ELSE [value |-> r.entry.value, found |-> TRUE, hit |-> TRUE]

\* what get returns without taking the write lock: a miss for an absent key,
\* the entry's value and found flag for an unexpired entry
getResult(r) ==
    IF ~r.exists THEN NoGet
    ELSE [value |-> r.entry.value, found |-> r.entry.found, hit |-> TRUE]

\* a wrong variant: the decorated function serves only positive entries from
\* the cache
AfterGetFoundOnly(p, g) ==
    /\ gres' = [gres EXCEPT ![p] = g]
    /\ rd' = [rd EXCEPT ![p] = NoRead]
    /\ IF op[p].kind = "get"
       THEN /\ Done(p, [NoRes EXCEPT !.value = g.value, !.found = g.found, !.hit = g.hit])
            /\ UNCHANGED fnCalls
       ELSE IF g.hit /\ g.found
            THEN /\ Done(p, [NoRes EXCEPT !.value = g.value, !.found = g.found])
                 /\ UNCHANGED fnCalls
            ELSE /\ Goto(p, "fn_run")
                 /\ fnCalls' = [fnCalls EXCEPT ![p] = @ + 1]

\* get returned g to its caller: a direct call is over; the decorated function
\* returns (val, lookupFound, nil) on a hit and enters fn on a miss
AfterGet(p, g) ==
    /\ gres' = [gres EXCEPT ![p] = g]
    /\ rd' = [rd EXCEPT ![p] = NoRead]
    /\ IF op[p].kind = "get"
       THEN /\ Done(p, [NoRes EXCEPT !.value = g.value, !.found = g.found, !.hit = g.hit])
            /\ UNCHANGED fnCalls
       ELSE IF g.hit
            THEN /\ Done(p, [NoRes EXCEPT !.value = g.value, !.found = g.found])
                 /\ UNCHANGED fnCalls
            ELSE /\ Goto(p, "fn_run")
                 /\ fnCalls' = [fnCalls EXCEPT ![p] = @ + 1]

\* at time t: if !exists { return miss }; if entry.isExpired() { ... };
\* return hit
GetCheck(p, t) ==
    /\ pc[p] = "get_check"
    /\ now' = t
    /\ IF rd[p].exists /\ isExpired(rd[p].entry, now')
       THEN Goto(p, "get_lock") /\ UNCHANGED <<gres, rd, fnCalls>>
       ELSE AfterGet(p, getResult(rd[p]))
    /\ UNCHANGED <<cacheNil, config, callers, keyset, cacheVars, lockVars, op, fres, ne, nev, nops>>

\* c.mu.Lock() on the expired path
GetLock(p) ==
    /\ pc[p] = "get_lock"
    /\ CanLock
    /\ writer' = p
    /\ Goto(p, "get_remove")
    /\ UNCHANGED <<envVars, cacheVars, readers, op, rd, gres, fres, fnCalls, ne, nev, nops>>

\* c.removeEntryLocked(key)
GetRemove(p) ==
    /\ pc[p] = "get_remove"
    /\ entries' = MapDelete(entries, op[p].key)
    /\ order' = removeFromOrder(order, op[p].key)
    /\ Goto(p, "get_unlock")
    /\ UNCHANGED <<envVars, lockVars, op, rd, gres, fres, fnCalls, ne, nev, nops>>

\* c.mu.Unlock(); return nil, false, false
GetUnlock(p) ==
    /\ pc[p] = "get_unlock"
    /\ writer' = None
    /\ AfterGet(p, NoGet)
    /\ UNCHANGED <<envVars, cacheVars, readers, op, fres, ne, nev, nops>>

\* ------------------------------------------------------------ Cache.set
\* a wrong variant: the closure's set gets the call's arguments, not the
\* outcome of the wrapped function
SetArgsOwn(p) ==
    [key |-> op[p].key, value |-> op[p].value, found |-> op[p].found]

\* the arguments of the running set: its own, or those WrapWithCache passes
SetArgs(p) ==
    IF op[p].kind = "lookup"
    THEN [key |-> op[p].key, value |-> fres[p].value, found |-> fres[p].found]
    ELSE [key |-> op[p].key, value |-> op[p].value, found |-> op[p].found]

\* a wrong variant: set never returns early
skipSetNever(found) == FALSE

\* the early return of set: a negative result with negative caching disabled
skipSet(found) == ~found /\ config.NegativeTTL = 0

\* a wrong variant: every entry gets the positive ttl
ttlForPositiveOnly(found) == config.TTL

\* ttl := c.config.TTL; if !found { ttl = c.config.NegativeTTL }
ttlFor(found) == IF found THEN config.TTL ELSE config.NegativeTTL

\* var expiresAt time.Time; if ttl > 0 { expiresAt = time.Now().Add(ttl) }
expiresAtFor(ttl, t) == IF ttl > 0 THEN t + ttl ELSE 0

\* the lifetime the configuration gives an entry, and the clock reading kept
\* as the storedAt of an entry that has a finite one
Lifetime(found) == IF found THEN config.TTL ELSE config.NegativeTTL
StoredAt(found, t) == IF Lifetime(found) > 0 THEN t ELSE 0

\* at time t: c.mu.Lock(); defer c.mu.Unlock(); then lines 83-94: choose the
\* ttl, return early or compute expiresAt
SetLock(p, t) ==
    /\ pc[p] = "set_lock"
    /\ CanLock
    /\ writer' = p
    /\ now' = t
    /\ IF skipSet(SetArgs(p).found)
       THEN Goto(p, "set_unlock") /\ UNCHANGED ne
       ELSE /\ Goto(p, "set_body")
            /\ ne' = [ne EXCEPT ![p] =
                        [value     |-> SetArgs(p).value,
                         found     |-> SetArgs(p).found,
                         expiresAt |-> expiresAtFor(ttlFor(SetArgs(p).found), now'),
                         storedAt  |-> StoredAt(SetArgs(p).found, now')]]
    /\ UNCHANGED <<cacheNil, config, callers, keyset, cacheVars, readers,
                   op, rd, gres, fres, fnCalls, nev, nops>>

\* lines 96-105: the key exists, overwrite it and move it to the end
SetUpdate(p) ==
    /\ pc[p] = "set_body"
    /\ SetArgs(p).key \in DOMAIN entries
    /\ entries' = MapPut(entries, SetArgs(p).key, ne[p])
    /\ order' = moveToEndLocked(order, SetArgs(p).key)
    /\ Goto(p, "set_unlock")
    /\ UNCHANGED <<envVars, lockVars, op, rd, gres, fres, fnCalls, ne, nev, nops>>

\* a wrong variant: the loop evicts only above the capacity
evictCondAbove(n, ord) == n > config.Size /\ Len(ord) > 0

\* for len(c.entries) >= c.config.Size && len(c.order) > 0
evictCond(n, ord) == n >= config.Size /\ Len(ord) > 0

\* a wrong variant: the victim is the newest key
oldestIsLast(ord) == ord[Len(ord)]

\* oldest := c.order[0]
oldest(ord) == ord[1]

\* lines 108-112: one iteration of the eviction loop
SetEvict(p) ==
    /\ pc[p] = "set_body"
    /\ SetArgs(p).key \notin DOMAIN entries
    /\ evictCond(Size, order)
    /\ entries' = MapDelete(entries, oldest(order))
    /\ order' = Tail(order)
    /\ nev' = [nev EXCEPT ![p] = @ + 1]
    /\ UNCHANGED <<envVars, lockVars, pc, op, rd, gres, fres, res, fnCalls, ne, nops,
                   hist, prevErr, prevCall, log, oracle>>

\* lines 114-119: c.entries[key] = &cacheEntry{...}; c.order = append(c.order, key)
SetInsert(p) ==
    /\ pc[p] = "set_body"
    /\ SetArgs(p).key \notin DOMAIN entries
    /\ ~evictCond(Size, order)
    /\ entries' = MapPut(entries, SetArgs(p).key, ne[p])
    /\ order' = Append(order, SetArgs(p).key)
    /\ Goto(p, "set_unlock")
    /\ UNCHANGED <<envVars, lockVars, op, rd, gres, fres, fnCalls, ne, nev, nops>>

\* a wrong variant: set returns without the deferred Unlock
SetUnlockKeepsLock(p) ==
    /\ pc[p] = "set_unlock"
    /\ ne' = [ne EXCEPT ![p] = NoEntry]
    /\ IF op[p].kind = "lookup"
       THEN Done(p, [NoRes EXCEPT !.value = fres[p].value, !.found = fres[p].found])
       ELSE Done(p, NoRes)
    /\ UNCHANGED <<envVars, cacheVars, lockVars, op, rd, gres, fres, fnCalls, nev, nops>>

\* the deferred c.mu.Unlock(); set returns, and so does the decorated
\* function with the wrapped function's value and found flag
SetUnlock(p) ==
    /\ pc[p] = "set_unlock"
    /\ writer' = None
    /\ ne' = [ne EXCEPT ![p] = NoEntry]
    /\ IF op[p].kind = "lookup"
       THEN Done(p, [NoRes EXCEPT !.value = fres[p].value, !.found = fres[p].found])
       ELSE Done(p, NoRes)
    /\ UNCHANGED <<envVars, cacheVars, readers, op, rd, gres, fres, fnCalls, nev, nops>>

\* ---------------------------------------------------------- Cache.Clear
\* c.mu.Lock(); defer c.mu.Unlock(); c.entries = make(map[string]*cacheEntry)
ClearLock(p) ==
    /\ pc[p] = "clear_lock"
    /\ CanLock
    /\ writer' = p
    /\ entries' = EmptyMap
    /\ Goto(p, "clear_order")
    /\ UNCHANGED <<envVars, order, readers, op, rd, gres, fres, fnCalls, ne, nev, nops>>

\* c.order = make([]string, 0)
ClearOrder(p) ==
    /\ pc[p] = "clear_order"
    /\ order' = <<>>
    /\ Goto(p, "clear_unlock")
    /\ UNCHANGED <<envVars, entries, lockVars, op, rd, gres, fres, fnCalls, ne, nev, nops>>

\* the deferred c.mu.Unlock()
ClearUnlock(p) ==
    /\ pc[p] = "clear_unlock"
    /\ writer' = None
    /\ Done(p, NoRes)
    /\ UNCHANGED <<envVars, cacheVars, readers, op, rd, gres, fres, fnCalls, ne, nev, nops>>

\* ----------------------------------------------------------- Cache.Size
\* c.mu.RLock(); defer c.mu.RUnlock()
SizeRLock(p) ==
    /\ pc[p] = "size_rlock"
    /\ CanRLock
    /\ readers' = readers \cup {p}
    /\ Goto(p, "size_read")
    /\ UNCHANGED <<envVars, cacheVars, writer, op, rd, gres, fres, fnCalls, ne, nev, nops>>

\* return len(c.entries), then the deferred RUnlock
SizeRead(p) ==
    /\ pc[p] = "size_read"
    /\ readers' = readers \ {p}
    /\ Done(p, [NoRes EXCEPT !.size = Size])
    /\ UNCHANGED <<envVars, cacheVars, writer, op, rd, gres, fres, fnCalls, ne, nev, nops>>

\* -------------------------------------------------------- WrapWithCache
\* a wrong variant: the closure caches the outcome of a failed lookup too
AfterFnCachesError(p, r) ==
    IF Bypass
    THEN Done(p, [NoRes EXCEPT !.value = r.value, !.found = r.found, !.err = r.err])
    ELSE Goto(p, "set_lock")

\* what the decorated function does with the wrapped function's outcome r:
\* the bare fn returns it as it is, the closure returns (nil, false, err) on
\* an error and otherwise calls cache.set
AfterFn(p, r) ==
    IF Bypass
    THEN Done(p, [NoRes EXCEPT !.value = r.value, !.found = r.found, !.err = r.err])
    ELSE IF r.err # NoErr
         THEN Done(p, [NoRes EXCEPT !.err = r.err])
         ELSE Goto(p, "set_lock")

\* val, found, err := fn(ctx, key) returns r
FnReturn(p, r) ==
    /\ pc[p] = "fn_run"
    /\ fres' = [fres EXCEPT ![p] = r]
    /\ AfterFn(p, r)
    /\ UNCHANGED <<envVars, cacheVars, lockVars, op, rd, gres, fnCalls, ne, nev, nops>>

Next ==
    \/ \E p \in Procs, k \in Keys : CallGet(p, k)
    \/ \E p \in Procs, k \in Keys, i \in SetInputs : CallSet(p, k, i[1], i[2])
    \/ \E p \in Procs : CallClear(p)
    \/ \E p \in Procs : CallSize(p)
    \/ \E p \in Procs, k \in Keys : CallLookup(p, k)
    \/ \E p \in Procs : GetRLock(p)
    \/ \E p \in Procs : GetRead(p)
    \/ \E p \in Procs, t \in Readings : GetCheck(p, t)
    \/ \E p \in Procs : GetLock(p)
    \/ \E p \in Procs : GetRemove(p)
    \/ \E p \in Procs : GetUnlock(p)
    \/ \E p \in Procs, t \in Readings : SetLock(p, t)
    \/ \E p \in Procs : SetUpdate(p)
    \/ \E p \in Procs : SetEvict(p)
    \/ \E p \in Procs : SetInsert(p)
    \/ \E p \in Procs : SetUnlock(p)
    \/ \E p \in Procs : ClearLock(p)
    \/ \E p \in Procs : ClearOrder(p)
    \/ \E p \in Procs : ClearUnlock(p)
    \/ \E p \in Procs : SizeRLock(p)
    \/ \E p \in Procs : SizeRead(p)
    \/ \E p \in Procs, r \in FnResults : FnReturn(p, r)

Spec    == Init /\ [][Next]_vars
SpecSeq == InitSeq /\ [][Next]_vars
SpecSer == InitSer /\ [][Next]_vars

\* the next step of the call goroutine p has under way
Run(p) ==
    \/ GetRLock(p) \/ GetRead(p) \/ GetLock(p) \/ GetRemove(p) \/ GetUnlock(p)
    \/ \E t \in Readings : GetCheck(p, t)
    \/ \E t \in Readings : SetLock(p, t)
    \/ SetUpdate(p) \/ SetEvict(p) \/ SetInsert(p) \/ SetUnlock(p)
    \/ ClearLock(p) \/ ClearOrder(p) \/ ClearUnlock(p)
    \/ SizeRLock(p) \/ SizeRead(p)
    \/ \E r \in FnResults : FnReturn(p, r)

\* the scheduler runs every goroutine that can take a step, and the wrapped
\* function returns; no goroutine is obliged to make a further call
SpecFair == InitFair /\ [][Next]_vars /\ \A p \in Procs : WF_vars(Run(p))

\* ================================================================ claims
\* no call of a caller is under way
Quiet == \A p \in callers : pc[p] \in {"idle", "done"}

\* goroutine p takes a step of its call
Steps(p) == pc'[p] # pc[p] \/ nev'[p] # nev[p]

\* key k is resident and a get at time t finds it unexpired
Fresh(k, t) ==
    /\ k \in DOMAIN entries
    /\ entries[k].expiresAt = 0 \/ entries[k].expiresAt >= t

\* ------------------------------------------------------------------- C1
\* C1: for a cache built with size N > 0, whatever the interleaving of the
\* set, get, Clear, Size and decorated calls of concurrent goroutines,
\* Size() <= N whenever no call is inside its write critical section.
CapacityBound ==
    (~cacheNil /\ config.Size > 0 /\ writer = None) => Size <= config.Size

\* a set has evicted to make room, the cache is full, and the other
\* goroutine is in the middle of a call
CapacityBoundWitness ==
    /\ config.Size > 0 /\ writer = None /\ Size = config.Size
    /\ \E p, q \in callers :
          /\ p # q
          /\ pc[p] = "done" /\ nev[p] > 0
          /\ pc[q] \notin {"idle", "done"}

\* ------------------------------------------------------------------- C2
\* C2: in a call of the function WrapWithCache made over an enabled cache,
\* the wrapped function is invoked only if the call's get(key) was a miss; a
\* call whose get(key) is a hit returns at once (cachedValue, cachedFound, no
\* error) and invokes nothing, for negative entries as for positive ones.
HitSkipsLookup ==
    \A p \in Procs :
        (op[p].kind = "lookup" /\ ~Bypass) =>
            /\ fnCalls[p] > 0 => ~gres[p].hit
            /\ gres[p].hit =>
                  /\ pc[p] = "done"
                  /\ fnCalls[p] = 0
                  /\ res[p] = [NoRes EXCEPT !.value = gres[p].value,
                                            !.found = gres[p].found]

\* a decorated call was served by a negative entry
HitSkipsLookupWitness ==
    \E p \in callers :
        /\ op[p].kind = "lookup" /\ ~Bypass /\ pc[p] = "done"
        /\ gres[p].hit /\ ~gres[p].found /\ fnCalls[p] = 0
        /\ ~res[p].found /\ res[p].err = NoErr

\* ------------------------------------------------------------------- C3
\* the wrapped function returns an error to the closure of goroutine p
FailsNow(p) == pc[p] = "fn_run" /\ ~Bypass /\ fres'[p].err # NoErr

\* a decorated call whose wrapped function failed has returned exactly
\* (nil, false, that error)
ErrorReturned ==
    \A p \in Procs :
        (op[p].kind = "lookup" /\ ~Bypass /\ pc[p] = "done" /\ fres[p].err # NoErr)
            => res[p] = [NoRes EXCEPT !.err = fres[p].err]

\* a decorated call that follows a failed one with the same key has invoked
\* the wrapped function
RetryInvokes ==
    \A p \in Procs :
        (op[p].kind = "lookup" /\ ~Bypass /\ pc[p] = "done" /\ prevErr = op[p].key)
            => fnCalls[p] = 1

\* C3: when the wrapped function returns an error on a cache miss, the
\* decorated function returns at that step with exactly that error, without
\* a set call (entries, order and the lock stay as they are), and the next
\* call with the same key invokes the wrapped function again.
ErrorNotCached ==
    [][/\ \A p \in Procs :
              FailsNow(p) => /\ pc'[p] = "done"
                             /\ res'[p] = [NoRes EXCEPT !.err = fres'[p].err]
                             /\ UNCHANGED <<entries, order, writer, readers>>
       /\ ErrorReturned'
       /\ RetryInvokes']_vars

\* a failed decorated call was followed by one with the same key, which
\* invoked the wrapped function and stored its positive result
ErrorNotCachedWitness ==
    \E p \in callers :
        /\ op[p].kind = "lookup" /\ ~Bypass /\ pc[p] = "done"
        /\ prevErr = op[p].key
        /\ fnCalls[p] = 1 /\ res[p].found /\ res[p].err = NoErr
        /\ op[p].key \in DOMAIN entries

\* ------------------------------------------------------------------- C4
\* the get of goroutine p decides at time now'
GetAnswers(p) ==
    LET k == op[p].key IN
    /\ (pc[p] = "get_check" /\ pc'[p] # "get_check") =>
          IF Fresh(k, now')
          THEN /\ pc'[p] # "get_lock"
               /\ gres'[p] = [value |-> entries[k].value,
                              found |-> entries[k].found, hit |-> TRUE]
          ELSE IF k \in DOMAIN entries
               THEN pc'[p] = "get_lock" /\ gres'[p] = NoGet
               ELSE pc'[p] # "get_lock" /\ gres'[p] = NoGet
    /\ (pc[p] = "get_unlock" /\ pc'[p] # "get_unlock") => gres'[p] = NoGet
    /\ (op[p].kind = "get" /\ pc[p] # "done" /\ pc'[p] = "done") =>
          res'[p] = [NoRes EXCEPT !.value = gres'[p].value,
                                  !.found = gres'[p].found,
                                  !.hit = gres'[p].hit]

\* C4: get(key) returns a hit, with the (value, found) stored for the key, if
\* and only if the key is resident and its expiresAt is unset or not before
\* the time of the call; otherwise it returns (nil, false, miss), for an
\* entry whose expiresAt is in the past after taking the path that purges it.
GetHitIffFresh ==
    [][\A p \in Procs : GetAnswers(p)]_vars

\* a get at the very expiresAt of an entry returned it as a hit
GetHitIffFreshWitness ==
    \E p \in callers :
        /\ op[p].kind = "get" /\ pc[p] = "done" /\ res[p].hit
        /\ op[p].key \in DOMAIN entries
        /\ entries[op[p].key].expiresAt = now
        /\ res[p].value = entries[op[p].key].value

\* ------------------------------------------------------------------- C5
\* a get of k now would be a hit that returns (v, true)
WouldHit(k, v) ==
    /\ Fresh(k, now)
    /\ entries[k].value = v /\ entries[k].found

\* the calls so far were sets of N + 1 distinct keys on a cache of capacity
\* N > 0 without expiry
FilledAndOneMore ==
    /\ Quiet /\ config.Size > 0
    /\ Len(hist) = config.Size + 1
    /\ AllSets(hist) /\ DistinctKeys(hist)

\* C5: with capacity N > 0 and no expiry, after sets of N distinct keys
\* k1..kN in that order and the set of a new key k(N+1), k1 is not resident
\* (a get is a miss) and each of k2..k(N+1) is resident with its stored value
\* (a get is a hit), in the order of their sets.
OldestEvicted ==
    FilledAndOneMore =>
        /\ hist[1][2] \notin DOMAIN entries
        /\ \A i \in 2..Len(hist) : WouldHit(hist[i][2], hist[i][3])
        /\ order = [i \in 1..config.Size |-> hist[i + 1][2]]

\* the scenario of the test: capacity 3, four distinct keys
OldestEvictedWitness ==
    FilledAndOneMore /\ config.Size = 3 /\ Size = 3

\* ------------------------------------------------------------------- C6
\* the set of goroutine p finds its key resident and updates it
UpdateInPlace(p) ==
    LET a == SetArgs(p) IN
    (pc[p] = "set_body" /\ a.key \in DOMAIN entries /\ pc'[p] # "set_body") =>
        /\ DOMAIN entries' = DOMAIN entries
        /\ Cardinality(DOMAIN entries') = Size
        /\ entries'[a.key].value = a.value
        /\ entries'[a.key].found = a.found
        /\ entries'[a.key].expiresAt =
              (IF Lifetime(a.found) > 0 THEN now + Lifetime(a.found) ELSE 0)
        /\ \A k \in DOMAIN entries \ {a.key} : entries'[k] = entries[k]
        /\ order' = Append(SelectSeq(order, LAMBDA k : k # a.key), a.key)

\* the calls so far were set(k1), set(k2), set(k3), set(k1), set(k4) on a
\* cache of capacity 3 without expiry
ResetThenOneMore ==
    /\ Quiet /\ config.Size = 3
    /\ Len(hist) = 5 /\ AllSets(hist)
    /\ DistinctKeys(SubSeq(hist, 1, 3))
    /\ hist[4][2] = hist[1][2]
    /\ DistinctKeys(<<hist[1], hist[2], hist[3], hist[5]>>)

ResetSurvives ==
    ResetThenOneMore =>
        /\ hist[2][2] \notin DOMAIN entries
        /\ WouldHit(hist[1][2], hist[4][3])
        /\ WouldHit(hist[3][2], hist[3][3])
        /\ WouldHit(hist[5][2], hist[5][3])
        /\ order = <<hist[3][2], hist[1][2], hist[5][2]>>

\* C6: set on a resident key overwrites its value, found flag and expiresAt
\* and moves the key to the end of order, leaving every other entry and
\* Size() as they are; so with capacity 3, after set(k1), set(k2), set(k3),
\* set(k1), set(k4), k1 is resident with its second value and k2 is the key
\* evicted.
UpdateMovesToEnd ==
    [][(\A p \in Procs : UpdateInPlace(p)) /\ ResetSurvives']_vars

\* the scenario has run, and the second set of k1 changed its value
UpdateMovesToEndWitness ==
    ResetThenOneMore /\ hist[4][3] # hist[1][3]

\* ------------------------------------------------------------------- C7
\* the calls so far were set(k1), set(k2), set(k3), a get of k1 that was a
\* hit, and set(k4), on a cache of capacity 3 without expiry
GetThenOneMore ==
    /\ Quiet /\ config.Size = 3
    /\ Len(hist) = 5
    /\ AllSets(SubSeq(hist, 1, 3)) /\ DistinctKeys(SubSeq(hist, 1, 3))
    /\ hist[4] = <<"get", hist[1][2], "hit">>
    /\ hist[5][1] = "set"
    /\ DistinctKeys(<<hist[1], hist[2], hist[3], hist[5]>>)

\* C7: a get hit refreshes recency: with capacity 3, after set(k1), set(k2),
\* set(k3), get(k1) (a hit) and set(k4), k1 is still resident and k2 is the
\* key evicted.
GetRefreshesRecency ==
    GetThenOneMore =>
        /\ hist[1][2] \in DOMAIN entries
        /\ hist[2][2] \notin DOMAIN entries

\* ------------------------------------------------------------------- C8
\* goroutine p is in a set of a negative result while negative caching is
\* disabled
NegativeSetOff(p) ==
    /\ pc[p] \in {"set_lock", "set_body", "set_unlock"}
    /\ ~SetArgs(p).found
    /\ config.NegativeTTL = 0

\* C8: when negativeTTL = 0, no step of set(key, value, false) changes
\* entries or order, whether the key is resident or not: the call returns
\* with both exactly as it found them.
NegativeSetIsNoOp ==
    [][\A p \in Procs :
          (NegativeSetOff(p) /\ Steps(p)) =>
              /\ UNCHANGED <<entries, order>>
              /\ pc'[p] \in {"set_unlock", "done"}]_vars

\* such a set has returned for a key that is resident with a positive entry,
\* and for a key that is absent while the cache is not empty
NegativeSetIsNoOpWitness ==
    /\ config.NegativeTTL = 0
    /\ \E p \in callers :
          /\ op[p].kind = "set" /\ ~op[p].found /\ pc[p] = "done"
          /\ op[p].key \in DOMAIN entries /\ entries[op[p].key].found
    /\ \E q \in callers :
          /\ op[q].kind = "set" /\ ~op[q].found /\ pc[q] = "done"
          /\ op[q].key \notin DOMAIN entries

\* ------------------------------------------------------------------- C9
\* the get of goroutine p is a hit at this step
HitsNow(p) == pc'[p] # "get_lock" /\ gres'[p].hit

\* the get of goroutine p decides at time now' about a resident entry
LifetimeRules(p) ==
    LET k == op[p].key IN
    (pc[p] = "get_check" /\ pc'[p] # "get_check" /\ k \in DOMAIN entries) =>
        LET e == entries[k] IN
        /\ (e.found /\ config.TTL > 0) =>
              (HitsNow(p) <=> now' <= e.storedAt + config.TTL)
        /\ ~e.found =>
              /\ config.NegativeTTL > 0
              /\ HitsNow(p) <=> now' <= e.storedAt + config.NegativeTTL
              /\ HitsNow(p) => ~gres'[p].found

\* C9: the lifetime of an entry is chosen by its found flag: an entry stored
\* with found = true under a positive TTL is a hit until TTL has elapsed
\* since its set and a miss afterwards; an entry stored with found = false
\* exists only under NegativeTTL > 0 and is a hit (returning found = false)
\* until NegativeTTL has elapsed since its set and a miss afterwards,
\* whatever the positive TTL.
LifetimeByFound ==
    [][\A p \in Procs : LifetimeRules(p)]_vars

\* a get found a negative entry expired at a time when a positive entry
\* stored by the same set would still be served
LifetimeByFoundWitness ==
    \E p \in callers :
        /\ pc[p] = "get_lock" /\ rd[p].exists /\ ~rd[p].entry.found
        /\ config.TTL > config.NegativeTTL
        /\ now > rd[p].entry.storedAt + config.NegativeTTL
        /\ now <= rd[p].entry.storedAt + config.TTL

\* ------------------------------------------------------------------ C10
\* the cache handed to WrapWithCache is nil or has Enabled = false
NilOrDisabled == cacheNil \/ ~config.Enabled

\* a call of the function WrapWithCache returned for a nil or disabled cache
\* is inside the wrapped function, invoked once, or has returned its outcome
BypassedCall(p) ==
    /\ pc[p] \in {"fn_run", "done"}
    /\ fnCalls[p] = 1
    /\ gres[p] = NoGet /\ rd[p] = NoRead
    /\ pc[p] = "done" =>
          res[p] = [NoRes EXCEPT !.value = fres[p].value,
                                 !.found = fres[p].found,
                                 !.err = fres[p].err]

\* C10: WrapWithCache given a nil cache or a cache whose Enabled flag is
\* false returns the original function: every call invokes the wrapped
\* function exactly once, returns its result unchanged, and no step of it
\* reads or changes entries, order or the lock.
BypassIsIdentity ==
    [][\A p \in Procs :
          (NilOrDisabled /\ op'[p].kind = "lookup") =>
              /\ BypassedCall(p)'
              /\ Steps(p) => UNCHANGED <<entries, order, writer, readers>>]_vars

\* over a disabled cache that holds the key, a call has returned the wrapped
\* function's error together with its value
BypassIsIdentityWitness ==
    \E p \in callers :
        /\ ~cacheNil /\ ~config.Enabled
        /\ op[p].kind = "lookup" /\ pc[p] = "done"
        /\ op[p].key \in DOMAIN entries
        /\ res[p].err # NoErr /\ res[p].found
        /\ res[p].value # entries[op[p].key].value

\* ------------------------------------------------------------------ C11
\* goroutine p is at the get of a decorated call that follows at once a
\* decorated call with the same key, which invoked the wrapped function once
\* and returned its result without error
SecondCall(p) ==
    /\ pc[p] = "get_check" /\ pc'[p] # "get_check"
    /\ op[p].kind = "lookup" /\ ~Bypass
    /\ prevCall.key = op[p].key /\ prevCall.calls = 1

\* the result of the first call, stored at time now, has not expired at the
\* time now' of the second call's get
NoExpiryBetween ==
    Lifetime(prevCall.found) = 0 \/ now' <= now + Lifetime(prevCall.found)

\* the second call ends at its get without invoking the wrapped function and
\* returns the (value, found) of the first
ServedFromFirst(p) ==
    /\ pc'[p] = "done"
    /\ fnCalls'[p] = 0
    /\ res'[p] = [NoRes EXCEPT !.value = prevCall.value, !.found = prevCall.found]

\* C11 as stated: with an enabled cache, for any non-error result of the
\* wrapped function, two successive decorated calls with the same key (no
\* expiry in between) invoke the wrapped function exactly once and the second
\* returns the (value, found) of the first.
MemoizedAlways ==
    [][\A p \in Procs :
          (SecondCall(p) /\ NoExpiryBetween) => ServedFromFirst(p)]_vars

\* C11, amended: the same, for every result the cache stores: a positive
\* result, or a negative one when NegativeTTL > 0.  A negative result under
\* NegativeTTL = 0 is not stored, and the second call invokes the wrapped
\* function again.
MemoizedWhenStored ==
    [][\A p \in Procs :
          (SecondCall(p) /\ NoExpiryBetween) =>
              IF prevCall.found \/ config.NegativeTTL > 0
              THEN ServedFromFirst(p)
              ELSE pc'[p] = "fn_run" /\ fnCalls'[p] = 1]_vars

\* a second call was served the negative result of the first
MemoizedWhenStoredWitness ==
    \E p \in callers :
        /\ op[p].kind = "lookup" /\ ~Bypass /\ pc[p] = "done"
        /\ prevCall.key = op[p].key /\ prevCall.calls = 1 /\ ~prevCall.found
        /\ fnCalls[p] = 0 /\ ~res[p].found /\ res[p].err = NoErr

\* ------------------------------------------------------------------ C12
\* size = 1000, the default NewCache computes for a size <= 0
DefaultSize == 1000

\* C12: a cache created by NewCache with size <= 0 behaves like one created
\* with size = 1000: a set evicts nothing while fewer than 1000 entries are
\* resident, so a set that stored a new key has left every key that was
\* resident in place.
DefaultCapacityApplies ==
    (~cacheNil /\ config.Size <= 0 /\ Size < DefaultSize) =>
        \A p \in Procs : nev[p] = 0

\* ------------------------------------------------------------------ C13
\* a state of the two structures
CacheState(m, ord) == [entries |-> m, order |-> ord]

\* the eviction loop of set run to its end on state st
RECURSIVE EvictedDown(_)
EvictedDown(st) ==
    IF evictCond(Cardinality(DOMAIN st.entries), st.order)
    THEN EvictedDown(CacheState(MapDelete(st.entries, oldest(st.order)),
                                Tail(st.order)))
    ELSE st

\* set(c.key, c.value, c.found) as one atomic operation at time t
AtomicSet(st, c, t) ==
    LET e == [value     |-> c.value,
              found     |-> c.found,
              expiresAt |-> expiresAtFor(ttlFor(c.found), t),
              storedAt  |-> StoredAt(c.found, t)]
    IN  IF skipSet(c.found) THEN st
        ELSE IF c.key \in DOMAIN st.entries
             THEN CacheState(MapPut(st.entries, c.key, e),
                             moveToEndLocked(st.order, c.key))
             ELSE LET ev == EvictedDown(st)
                  IN  CacheState(MapPut(ev.entries, c.key, e),
                                 Append(ev.order, c.key))

\* get(c.key) as one atomic operation at time t
AtomicGet(st, c, t) ==
    IF c.key \in DOMAIN st.entries /\ isExpired(st.entries[c.key], t)
    THEN CacheState(MapDelete(st.entries, c.key), removeFromOrder(st.order, c.key))
    ELSE st

AtomicCall(st, c, t) ==
    IF c.kind = "set" THEN AtomicSet(st, c, t) ELSE AtomicGet(st, c, t)

\* the logged calls among those with indices in rem that can run next: the
\* earliest remaining call of each goroutine
Runnable(rem) ==
    {i \in rem : \A j \in rem : log[j].by = log[i].by => i <= j}

\* the states in which the logged calls with indices in rem can leave the
\* cache when they run one after the other from state st, at any times from
\* t0 on, in any order that keeps the calls of each goroutine in the order
\* in which it made them
RECURSIVE SerialOutcomes(_, _, _)
SerialOutcomes(st, rem, t0) ==
    IF rem = {} THEN {st}
    ELSE UNION {UNION {SerialOutcomes(AtomicCall(st, log[i], t), rem \ {i}, t) :
                          t \in t0..MaxTime} : i \in Runnable(rem)}

\* C13: under any interleaving of concurrent get and set calls on
\* overlapping keys, once all of them have returned the state of (entries,
\* order) is one that the same calls of the same goroutines produce when
\* each call runs as one atomic operation, one after the other, at some
\* times.
Serializable ==
    (log # NoLog /\ Quiet) =>
        CacheState(entries, order)
            \in SerialOutcomes(CacheState(EmptyMap, <<>>), 1..Len(log), 1)

\* ------------------------------------------------------------------ C14
\* the keys of the order slice
OrderKeys == {order[i] : i \in 1..Len(order)}

\* C14: in every reachable state in which no goroutine is inside a write
\* critical section, under any interleaving of get, set, Clear, Size and
\* decorated calls, the keys of entries are exactly the keys of order and
\* order holds no key twice.
Lockstep ==
    writer = None =>
        /\ OrderKeys = DOMAIN entries
        /\ \A i, j \in 1..Len(order) : i # j => order[i] # order[j]

\* two keys are resident, the set of the newer one has returned and a get
\* that found its entry expired waits for the write lock
LockstepWitness ==
    /\ writer = None /\ Len(order) = 2
    /\ \E p, q \in callers :
          /\ pc[p] = "done" /\ op[p].kind = "set" /\ order[2] = op[p].key
          /\ pc[q] = "get_lock"

\* ------------------------------------------------------------------ C15
\* the entry resident for key k is expired now
ExpiredNow(k) == entries[k].expiresAt # 0 /\ now > entries[k].expiresAt

\* C15: a resident entry leaves the cache only by Clear, by the eviction
\* loop of set, or by a get of its key, and a get removes only an entry that
\* is expired at the moment of the removal, also when a set of the same key
\* ran between the get's read and its removal.
RemovedOnlyIfExpired ==
    [][\A k \in DOMAIN entries \ DOMAIN entries' :
          \/ \E p \in Procs : pc[p] = "clear_lock" /\ writer' = p
          \/ \E p \in Procs : pc[p] = "set_body" /\ nev'[p] = nev[p] + 1
          \/ \E p \in Procs : /\ pc[p] = "get_remove" /\ op[p].key = k
                              /\ ExpiredNow(k)]_vars

\* ------------------------------------------------------------------ C16
\* a get of goroutine p that finds a positive entry on a cache with TTL = 0
\* is a hit with the entry's value, whatever the time now' of the call
HitAtAnyTime(p) ==
    LET k == op[p].key IN
    (/\ pc[p] = "get_check" /\ pc'[p] # "get_check"
     /\ config.TTL = 0
     /\ k \in DOMAIN entries /\ entries[k].found) =>
        /\ pc'[p] # "get_lock"
        /\ gres'[p] = [value |-> entries[k].value, found |-> TRUE, hit |-> TRUE]

\* the positive entry of key k on a cache with TTL = 0 changes or goes only
\* in a set of k, in the eviction loop of a set, or in Clear
StaysUntilReplaced(k) ==
    (/\ config.TTL = 0 /\ entries[k].found
     /\ (k \notin DOMAIN entries' \/ entries'[k] # entries[k])) =>
        \E p \in Procs :
            \/ pc[p] = "set_body" /\ SetArgs(p).key = k /\ pc'[p] = "set_unlock"
            \/ pc[p] = "set_body" /\ nev'[p] = nev[p] + 1
            \/ pc[p] = "clear_lock" /\ writer' = p

\* C16: with TTL = 0 an entry stored by set(key, value, true) never expires:
\* at whatever time a get(key) runs it is a hit returning (value, true), and
\* the entry stays as stored until a set overwrites the key, the eviction
\* loop of a set removes it, or Clear runs (calls of one goroutine).
PositiveNeverExpires ==
    [][/\ \A p \in Procs : HitAtAnyTime(p)
       /\ \A k \in DOMAIN entries : StaysUntilReplaced(k)]_vars

\* a get at the latest time of the model hit a positive entry of a cache
\* with TTL = 0
PositiveNeverExpiresWitness ==
    \E p \in callers :
        /\ config.TTL = 0 /\ ~cacheNil /\ now = MaxTime /\ now > 1
        /\ op[p].kind = "get" /\ pc[p] = "done"
        /\ res[p].hit /\ res[p].found
        /\ op[p].key \in DOMAIN entries
        /\ entries[op[p].key].value = res[p].value

\* ------------------------------------------------------------------ C17
\* the positions at which a goroutine holds the lock, in read or write mode
InsideLock == {"get_read", "get_remove", "get_unlock", "set_body", "set_unlock",
               "clear_order", "clear_unlock", "size_read"}

\* while a Clear is between emptying entries and releasing the lock it holds
\* the write lock and no other goroutine holds the lock in any mode, so none
\* reads or writes entries or order
ClearExcludes ==
    \A p \in Procs :
        pc[p] \in {"clear_order", "clear_unlock"} =>
            /\ writer = p /\ readers = {}
            /\ \A q \in Procs \ {p} : pc[q] \notin InsideLock

\* Clear returns with both structures empty: Size() = 0, no key resident
ClearReturnsEmpty ==
    \A p \in Procs :
        (pc[p] = "clear_unlock" /\ pc'[p] = "done") =>
            /\ Cardinality(DOMAIN entries') = 0
            /\ order' = <<>>
            /\ writer' = None

\* C17: Clear empties entries and order inside one write critical section:
\* when Clear returns Size() = 0 and no key is resident (every get is a
\* miss), and no concurrent get, set or Size holds the lock, in any mode,
\* while one structure is emptied and the other not.
ClearIsAtomic ==
    [][ClearReturnsEmpty /\ ClearExcludes']_vars

\* a Clear has emptied entries but not yet order while the other goroutine
\* waits for the lock
ClearIsAtomicWitness ==
    \E p, q \in callers :
        /\ p # q
        /\ pc[p] = "clear_order" /\ entries = EmptyMap /\ order # <<>>
        /\ pc[q] \in {"get_rlock", "set_lock", "size_rlock", "get_lock"}

\* ------------------------------------------------------------------ C18
\* goroutine p holds the lock, in read or write mode
HoldsLock(p) == writer = p \/ p \in readers

\* C18: a goroutine never holds the cache lock, in read or write mode, while
\* it executes the wrapped lookup function: in the decorated function get
\* has released the lock before the wrapped call starts, and set takes it
\* only after the wrapped call has returned; a goroutine holds the lock only
\* at the positions inside the critical sections of get, set, Clear and
\* Size.
NoLockDuringLookup ==
    \A p \in Procs :
        /\ pc[p] = "fn_run" => ~HoldsLock(p)
        /\ HoldsLock(p) => pc[p] \in InsideLock
        /\ pc[p] = "set_lock" => ~HoldsLock(p)

\* a goroutine is inside the wrapped function of a decorated call on an
\* enabled cache after a get miss while the other goroutine holds the write
\* lock
NoLockDuringLookupWitness ==
    \E p, q \in callers :
        /\ p # q
        /\ pc[p] = "fn_run" /\ ~Bypass /\ fnCalls[p] = 1
        /\ writer = q

\* ------------------------------------------------------------------ C19
\* C19: if the wrapped function is a deterministic function of the key,
\* then after any interleaving of decorated calls, with any expiry, eviction,
\* Clear, direct get or Size in between, every decorated call with key k
\* returns the error of wrapped(k), and when there is none the
\* (value, found) of wrapped(k).
Transparent ==
    \A p \in Procs :
        (oracle.on /\ op[p].kind = "lookup" /\ pc[p] = "done") =>
            /\ op[p].key \in DOMAIN oracle.m
            /\ LET w == oracle.m[op[p].key] IN
               /\ res[p].err = w.err
               /\ w.err = NoErr => res[p].value = w.value /\ res[p].found = w.found

\* the wrapped function has answered two keys and a decorated call was
\* served from the cache
TransparentWitness ==
    \E p \in callers :
        /\ oracle.on /\ Cardinality(DOMAIN oracle.m) = 2
        /\ op[p].kind = "lookup" /\ pc[p] = "done"
        /\ gres[p].hit /\ fnCalls[p] = 0

\* ------------------------------------------------------------------ C20
\* the positions of a goroutine inside Cache.get
GetPositions == {"get_rlock", "get_read", "get_check", "get_lock",
                 "get_remove", "get_unlock"}

\* the keys of ord other than k, in the order they have in ord
Others(ord, k) == SelectSeq(ord, LAMBDA x : x # k)

\* the step of a get that removes key k: k leaves entries and order, Size
\* drops by exactly one, every other key keeps its entry and the other keys
\* keep their relative order
RemovesOnly(k) ==
    /\ k \in DOMAIN entries
    /\ DOMAIN entries' = DOMAIN entries \ {k}
    /\ Cardinality(DOMAIN entries') = Cardinality(DOMAIN entries) - 1
    /\ \A j \in DOMAIN entries' : entries'[j] = entries[j]
    /\ order' = Others(order, k)
    /\ Len(order') = Len(order) - 1

\* C20: with one caller, a get(key) that misses because the resident entry
\* is expired removes exactly that key from entries and order and leaves the
\* other entries and their relative order as they were; a get that hits or
\* finds the key absent leaves entries and order unchanged at every step.
GetFrame ==
    [][\A p \in callers :
          (Steps(p) /\ pc[p] \in GetPositions) =>
              /\ (pc[p] = "get_check" /\ pc'[p] = "get_lock") <=>
                     (/\ pc[p] = "get_check"
                      /\ op[p].key \in DOMAIN entries
                      /\ entries[op[p].key].expiresAt # 0
                      /\ now' > entries[op[p].key].expiresAt)
              /\ pc[p] = "get_lock" => pc'[p] = "get_remove"
              /\ IF pc[p] = "get_remove"
                 THEN RemovesOnly(op[p].key) /\ pc'[p] = "get_unlock"
                 ELSE UNCHANGED <<entries, order>>
              /\ pc[p] = "get_unlock" => ~gres'[p].hit]_vars

\* a get has just removed its expired key from a cache of two entries, and
\* the other key is still resident
GetFrameWitness ==
    \E p \in callers :
        /\ Lone /\ pc[p] = "get_unlock" /\ config.Size = 2
        /\ op[p].key \notin DOMAIN entries
        /\ Size = 1 /\ Len(order) = 1
        /\ rd[p].exists /\ rd[p].entry.expiresAt # 0

\* ------------------------------------------------------------------ C21
\* one iteration of the eviction loop: the key at the head of the order
\* leaves entries and order, every other key keeps its entry and the other
\* keys keep their relative order
EvictsHead ==
    /\ Len(order) > 0 /\ order[1] \in DOMAIN entries
    /\ DOMAIN entries' = DOMAIN entries \ {order[1]}
    /\ Cardinality(DOMAIN entries') = Cardinality(DOMAIN entries) - 1
    /\ \A j \in DOMAIN entries' : entries'[j] = entries[j]
    /\ order' = Others(order, order[1])

\* the insertion of the non-resident key k: it joins entries and the end of
\* the order, every resident key keeps its entry and its place
InsertsOnly(k) ==
    /\ DOMAIN entries' = DOMAIN entries \cup {k}
    /\ \A j \in DOMAIN entries : entries'[j] = entries[j]
    /\ order' = order \o <<k>>

\* C21: for a capacity N > 0, a set of a non-resident key that finds N
\* resident entries evicts the key at the head of the order and nothing
\* else, then inserts; one that finds fewer than N inserts without evicting.
\* In both cases no set evicts more than one entry.
EvictsExactlyOne ==
    [][\A p \in callers :
          (/\ pc[p] = "set_body" /\ Steps(p)
           /\ config.Size > 0 /\ op[p].key \notin DOMAIN entries) =>
              IF Cardinality(DOMAIN entries) = config.Size
              THEN /\ nev[p] = 0 /\ nev'[p] = 1
                   /\ pc'[p] = "set_body"
                   /\ EvictsHead
              ELSE /\ Cardinality(DOMAIN entries) < config.Size
                   /\ nev'[p] = nev[p]
                   /\ pc'[p] = "set_unlock"
                   /\ InsertsOnly(op[p].key)]_vars

\* a set on a full cache of three entries has evicted one key and inserted
\* its own
EvictsExactlyOneWitness ==
    \E p \in callers :
        /\ pc[p] = "set_unlock" /\ nev[p] = 1
        /\ config.Size = 3 /\ Size = 3
        /\ order[3] = op[p].key

\* ------------------------------------------------------------------ C22
\* the resident entries whose expiresAt is in the past
Lingering == {k \in DOMAIN entries : ExpiredNow(k)}

\* C22: Size() returns the number of resident entries, expired ones included;
\* a step that only moves the clock leaves entries and order as they were;
\* and a set of a non-resident key evicts exactly when the number of resident
\* entries, expired ones included, has reached the capacity.
SizeCountsExpired ==
    [][/\ \A p \in callers :
             (pc[p] = "size_read" /\ pc'[p] = "done") =>
                 res'[p].size = Cardinality(DOMAIN entries)
       /\ now' # now => UNCHANGED <<entries, order>>
       /\ \A p \in callers :
             (/\ pc[p] = "set_body" /\ Steps(p)
              /\ op[p].key \notin DOMAIN entries /\ Len(order) > 0) =>
                 (nev'[p] = nev[p] + 1 <=>
                      Cardinality(DOMAIN entries) >= config.Size)]_vars

\* Size() has returned 2 while one of the two resident entries is expired
SizeCountsExpiredWitness ==
    \E p \in callers :
        /\ pc[p] = "done" /\ op[p].kind = "size" /\ res[p].size = 2
        /\ Cardinality(DOMAIN entries) = 2 /\ Lingering # {}

\* ------------------------------------------------------------------ C23
\* C23: every get, set, Clear and Size call, and every decorated call,
\* releases the lock on each of its paths, so the lock is free whenever no
\* call is under way, and under fair scheduling of the goroutines, whenever
\* calls are under way a moment follows at which all of them have returned:
\* no call waits for the lock for ever and the eviction loop of set ends.
EveryCallReturns ==
    /\ [](Quiet => (writer = None /\ readers = {}))
    /\ ~Quiet ~> Quiet

\* a get on its expired-entry path waits for the write lock while a set
\* that has evicted an entry holds it
EveryCallReturnsWitness ==
    \E p, q \in callers :
        /\ p # q
        /\ pc[p] = "get_lock"
        /\ writer = q /\ pc[q] \in {"set_body", "set_unlock"} /\ nev[q] = 1

====
